---- MODULE Spec2Model ----
(***************************************************************************)
(* Model of the selection/scoring engine of top-k-RSO:                     *)
(*   src/src/alg/HPF_eq.py            spacial_proximity, HPF, HPFR,        *)
(*                                    HPFR_div                             *)
(*   src/src/alg/biased_sampling.py   select_random, biased_sampling,      *)
(*                                    biased_sampling_div                  *)
(*   src/src/alg/extension_sampling.py grid_sampling, grid_weighted_sampling*)
(*   src/src/log/runner.py            ExperimentRunner.run_all,            *)
(*                                    _run_and_record                      *)
(*   src/src/log/logger.py            ExperimentLogger.log                 *)
(*   src/src/exp/optical_test.py      plot_bridge                          *)
(*   src/src/config.py                COMBO                                *)
(*                                                                         *)
(* Numbers.  The Python code works on floats; the model works on exact     *)
(* integers and rationals.  A rational is a pair <<n, d>> with d > 0 in    *)
(* lowest terms.  Weights (rF), proximities and W are drawn from small     *)
(* integer ranges.  A Python division by zero is the outcome               *)
(* "ZeroDivisionError".  The one place where the rounding of doubles       *)
(* changes an integer the code computes, math.floor(k * (score / total))   *)
(* in the grid samplers, is computed as the doubles round it (FloatFloor). *)
(* Values the runner only stores and passes on (scores, times) are names.  *)
(***************************************************************************)
EXTENDS Integers, Sequences, FiniteSets, TLC

\* ---------------------------------------------------------------- bounds
MaxN == 3          \* largest number of places of a data set S
MaxRF == 1         \* largest weight rF of a place (weights are 0..MaxRF)
MaxProx == 2       \* largest value stored in the table sS
MaxStored == 2     \* largest number of keys stored in sS (scoring runs)
MaxW == 2          \* largest diversity weight W (W is 1..MaxW)
MaxBudget == 2     \* largest budget k
MaxNegBudget == 1  \* size of the most negative budget k
MaxG == 2          \* largest grid resolution G (G is 1..MaxG)
MaxNegRF == 1      \* size of the most negative weight rF (signed runs)
MaxCombos == 2     \* largest number of (K, k) combos of a batch
MaxSizes == 2      \* largest data set size K of a combo (k is 1..K)
MaxGammas == 1     \* largest number of gammas of a batch
MaxShapes == 2     \* largest number of data set shapes of a batch
MaxScattered == 49 \* largest number of places of a scattered data set

VARIABLES
    S,        \* the data set: a sequence of places [id, rF]
    psS,      \* baseline_psS / optimal_psS: id -> proximity sum
    sS,       \* baseline_sS / optimal_sS: (id, id) -> proximity, partial
    CL,       \* the non-empty cells of the last grid, each a sequence of places
    k_alloc,  \* the quota per cell computed by the last grid sampler call
    R,        \* the selection built by the last sampler call (R, R_sampling)
    call,     \* the last call: its name and arguments
    ret,      \* how the last call ended: a returned tuple or a raised error
    batch,    \* the arguments of the running ExperimentRunner.run_all
    pc,       \* the position of run_all in its loops
    precomputes,  \* (shape, K) -> number of base_precompute runs of the batch
    row,      \* the row dict of the current (combo, gamma, shape, G)
    results,  \* current_algo_results: name -> record of _run_and_record
    logs,     \* logger.logs: the rows passed to logger.log, in order
    plots,    \* the calls of the plot callback, in order, with the file written
    saves     \* number of logger.save() calls of run_all

\* The state of ExperimentRunner.run_all.
runner == <<batch, pc, precomputes, row, results, logs, plots, saves>>

vars == <<S, psS, sS, CL, k_alloc, R, call, ret, batch, pc, precomputes,
          row, results, logs, plots, saves>>

\* ------------------------------------------------------------ arithmetic
Abs(n) == IF n < 0 THEN -n ELSE n

Min(a, b) == IF a <= b THEN a ELSE b

RECURSIVE GCD(_, _)
GCD(a, b) == IF b = 0 THEN a ELSE GCD(b, a % b)

\* The rational n/d (d # 0) in lowest terms with a positive denominator.
Rat(n, d) ==
    LET g == GCD(Abs(n), Abs(d))
        s == IF d < 0 THEN -1 ELSE 1
    IN  <<(s * n) \div g, (s * d) \div g>>

RatAdd(p, q) == Rat(p[1] * q[2] + q[1] * p[2], p[2] * q[2])

RatLess(p, q) == p[1] * q[2] < q[1] * p[2]

\* math.floor of the rational p.
Floor(p) == p[1] \div p[2]

\* The sum of f[x] over the finite set D.
RECURSIVE SumOver(_, _)
SumOver(D, f) ==
    IF D = {} THEN 0
    ELSE LET x == CHOOSE y \in D : TRUE IN f[x] + SumOver(D \ {x}, f)

\* sum(f[i] for i in 1..Len(f)), left to right as Python's sum() does.
RECURSIVE SumSeq(_)
SumSeq(f) == IF f = <<>> THEN 0 ELSE f[1] + SumSeq(Tail(f))

\* ------------------------------------------------------ Python Optional
\* dict.get(key): <<v>> when the key is stored, <<>> (None) otherwise.
DictGet(d, key) == IF key \in DOMAIN d THEN <<d[key]>> ELSE <<>>

\* Truth value of an optional number: None and 0 are false.
Truthy(o) == o # <<>> /\ o[1] # 0

\* Python's `a or b`: a when a is true, b otherwise.
PyOr(a, b) == IF Truthy(a) THEN a ELSE b

\* ------------------------------------------------------------ HPF_eq.py
\* A lookup that forgets the reverse key (j, i).
spacial_proximity_forward_only(t, pi, pj) ==
    PyOr(DictGet(t, <<pi.id, pj.id>>), <<0>>)[1]

\* spacial_proximity(sS, pi, pj):
\*   return sS.get((pi.id, pj.id)) or sS.get((pj.id, pi.id)) or 0.0
spacial_proximity(t, pi, pj) ==
    PyOr(PyOr(DictGet(t, <<pi.id, pj.id>>), DictGet(t, <<pj.id, pi.id>>)), <<0>>)[1]

Raise(e) == [kind |-> "raise", error |-> e]

\* HPF(pi, pj, W, psS, sS, k):
\*   K = W * k
\*   return (K - k) * (pi.rF - pj.rF) / (k - 1)
\*          + (psS[pi.id] + psS[pj.id]) / (k - 1) - 2 * W * sS[(pi.id, pj.id)]
\* The first division is evaluated before sS is indexed, and sS is indexed
\* with the one key (pi.id, pj.id).
HPF(pi, pj, W, ps, t, k) ==
    LET K == W * k
    IN  IF k - 1 = 0 THEN Raise("ZeroDivisionError")
        ELSE IF <<pi.id, pj.id>> \notin DOMAIN t THEN Raise("KeyError")
        ELSE [kind |-> "return",
              value |-> RatAdd(RatAdd(Rat((K - k) * (pi.rF - pj.rF), k - 1),
                                      Rat(ps[pi.id] + ps[pj.id], k - 1)),
                               Rat(0 - 2 * W * t[<<pi.id, pj.id>>], 1))]

\* The psR loop of HPFR: psR = {p.id: 0.0 for p in R}, then
\*   for pi in R: for pj in R:
\*       if pi.id != pj.id: psR[pi.id] += spacial_proximity(sS, pi, pj)
\* psR[id] ends as the sum, over the positions i of R that hold the id and
\* the positions j that hold another id, of the proximity of R[i] to R[j].
psRLoop(Rs, t) ==
    LET k == Len(Rs)
    IN  [id \in {Rs[n].id : n \in 1..k} |->
            SumSeq([i \in 1..k |->
                IF Rs[i].id # id THEN 0
                ELSE SumSeq([j \in 1..k |->
                         IF Rs[j].id # id
                         THEN spacial_proximity(t, Rs[i], Rs[j])
                         ELSE 0])])]

\* A scoring that reads the intra-subset proximity of a place from the full
\* table psS instead of recomputing it over R.
HPFR_intra_from_psS(Rs, ps, t, W, K) ==
    LET k == Len(Rs)
        sum_rF == SumSeq([n \in 1..k |-> Rs[n].rF])
        sum_diff == SumSeq([n \in 1..k |-> ps[Rs[n].id] - W * ps[Rs[n].id]])
    IN  IF 2 * k = 0 \/ 2 * k * (K - W) = 0
        THEN Raise("ZeroDivisionError")
        ELSE [kind |-> "return",
              score |-> RatAdd(Rat(sum_rF, 2 * k), Rat(sum_diff, 2 * k * (K - W))),
              sum_psS |-> SumSeq([n \in 1..k |-> ps[Rs[n].id]]),
              sum_psR |-> SumSeq([n \in 1..k |-> W * ps[Rs[n].id]])]

\* HPFR(R, baseline_psS, baseline_sS, W, K): the triple
\* (score, sum of psS, sum of W * psR), or the error of a division by zero.
HPFR(Rs, ps, t, W, K) ==
    LET k == Len(Rs)
        psR == psRLoop(Rs, t)
        sum_rF == SumSeq([n \in 1..k |-> Rs[n].rF])
        sum_diff == SumSeq([n \in 1..k |-> ps[Rs[n].id] - W * psR[Rs[n].id]])
    IN  IF 2 * k = 0 \/ 2 * k * (K - W) = 0
        THEN Raise("ZeroDivisionError")
        ELSE [kind |-> "return",
              score |-> RatAdd(Rat(sum_rF, 2 * k), Rat(sum_diff, 2 * k * (K - W))),
              sum_psS |-> SumSeq([n \in 1..k |-> ps[Rs[n].id]]),
              sum_psR |-> SumSeq([n \in 1..k |-> W * psR[Rs[n].id]])]

\* HPFR_div(R, baseline_psS, baseline_sS, W, K): the 4-tuple (score_rf,
\* score_ps, sum of psS, sum of W * psR); it divides by nothing.
HPFR_div(Rs, ps, t, W, K) ==
    LET k == Len(Rs)
        psR == psRLoop(Rs, t)
    IN  [kind |-> "return",
         score_rf |-> SumSeq([n \in 1..k |-> Rs[n].rF]),
         score_ps |-> SumSeq([n \in 1..k |-> ps[Rs[n].id] - W * psR[Rs[n].id]]),
         sum_psS |-> SumSeq([n \in 1..k |-> ps[Rs[n].id]]),
         sum_psR |-> SumSeq([n \in 1..k |-> W * psR[Rs[n].id]])]

\* ---------------------------------------------------- biased_sampling.py
\* The injective maps of 1..n into 1..m: the draws of n distinct positions.
Injections(n, m) ==
    {f \in [1..n -> 1..m] : \A a, b \in 1..n : a # b => f[a] # f[b]}

\* random.sample(population, n) for 0 <= n <= len(population): every list of
\* n elements taken at distinct positions, in any order.
Samples(population, n) ==
    {[i \in 1..n |-> population[f[i]]] : f \in Injections(n, Len(population))}

\* random.sample raises ValueError when the sample is larger than the
\* population or negative.
SampleRaises(population, n) == n < 0 \/ n > Len(population)

\* The outcomes of biased_sampling(S, k, W, psS, sS) when select_random
\* drew R_sampling: HPFR's error, or the tuple with HPFR's triple.
biased_result(R_sampling, W) ==
    LET h == HPFR(R_sampling, psS, sS, W, Len(S))
    IN  IF h.kind = "raise" THEN h
        ELSE [kind |-> "return", R |-> R_sampling, score |-> h.score,
              sum_psS |-> h.sum_psS, sum_psR |-> h.sum_psR,
              lenCL |-> 0, cell_stats |-> <<>>]

\* The tuple of biased_sampling_div(S, k, W) when select_random drew
\* R_sampling; ps and t are the tables its own base_precompute(S) built.
biased_div_result(R_sampling, W, ps, t) ==
    LET h == HPFR_div(R_sampling, ps, t, W, Len(S))
    IN  [kind |-> "return", R |-> R_sampling,
         score |-> Rat(h.score_rf + h.score_ps, 1),
         score_rf |-> h.score_rf, score_ps |-> h.score_ps,
         sum_psS |-> h.sum_psS, sum_psR |-> h.sum_psR]

\* ------------------------------------------------- extension_sampling.py
\* SquareGrid(S, G).get_full_cells(): the non-empty cells of a G x G grid
\* over S.  Every place lies in exactly one cell, so the cells are given by
\* a map of the positions of S onto 1..m, m <= G * G; cell c holds the
\* places mapped to c, in the order of S.
\* A grid that also puts the first place of S into every cell.
CellOf_also_first_place(f, c) == SelectSeq(S, LAMBDA p : f[p.id] = c \/ p.id = 1)

CellOf(f, c) == SelectSeq(S, LAMBDA p : f[p.id] = c)

FullCells(G) ==
    LET n == Len(S)
    IN  UNION {
          {[c \in 1..m |-> CellOf(f, c)] :
              f \in {g \in [1..n -> 1..m] : \A c \in 1..m : \E i \in 1..n : g[i] = c}}
          : m \in 1..Min(n, G * G)}

\* c.size()
size(c) == Len(c)

\* The float quotient a / b is exact when the denominator of a/b in lowest
\* terms is a power of two (the operands here are small integers).
RECURSIVE IsPowerOfTwo(_)
IsPowerOfTwo(n) == n = 1 \/ (n % 2 = 0 /\ IsPowerOfTwo(n \div 2))

ExactQuotient(a, b) == IsPowerOfTwo(Rat(a, b)[2])

\* The exponent b of the positive rational s / t: 2^b <= s / t < 2^(b + 1).
RECURSIVE ExponentUp(_, _, _)
ExponentUp(s, t, b) == IF t * 2 ^ (b + 1) <= s THEN ExponentUp(s, t, b + 1) ELSE b

RECURSIVE ExponentDown(_, _, _)
ExponentDown(s, t, c) == IF s * 2 ^ c >= t THEN c ELSE ExponentDown(s, t, c + 1)

Exponent(s, t) == IF s >= t THEN ExponentUp(s, t, 0) ELSE 0 - ExponentDown(s, t, 1)

\* (r * 2^e) % t for 0 <= r < t, eight bits of the shift at a time.
RECURSIVE ShiftMod(_, _, _)
ShiftMod(r, e, t) ==
    IF e = 0 \/ r = 0 THEN r
    ELSE LET step == Min(e, 8)
             shifted == (r * 2 ^ step) % t
         IN  IF shifted = 0 THEN 0 ELSE ShiftMod(shifted, e - step, t)

\* The double k * (s / t) lies on the far side of the integer that k * s / t
\* is exactly, so that math.floor returns one less.  s / t is rounded to 53
\* significant bits: with b its exponent, rem = (|s| * 2^(52 - b)) % |t| tells
\* the rounding (down by rem / |t| units of the last place when 2 * rem < |t|,
\* up by (|t| - rem) / |t| otherwise); the product with k is rounded again, to
\* the integer N = |k * s / t| unless it is more than half a unit of the last
\* place of the neighbour of N away from N.  A positive product must have
\* been rounded down for that, a negative one up.  A quotient s / t that is
\* an integer, or whose t is a power of two, is exact (rem = 0).
FloorIsOneBelow(k, s, t) ==
    /\ k * s # 0
    /\ Abs(k * s) % Abs(t) = 0
    /\ Abs(s) % Abs(t) # 0
    /\ ~IsPowerOfTwo(Abs(t))
    /\ LET ak == Abs(k)
           as == Abs(s)
           at == Abs(t)
           N == (ak * as) \div at
           a == ExponentUp(N, 1, 0)
           b == Exponent(as, at)
           rem == ShiftMod(as % at, 52 - b, at)
       IN  /\ rem # 0
           /\ IF (k * s < 0) = (t > 0)
              THEN /\ 2 * rem > at
                   /\ 2 * ak * (at - rem) > at * 2 ^ (a - b)
              ELSE /\ 2 * rem < at
                   /\ IF N = 2 ^ a
                      THEN 4 * ak * rem > at * 2 ^ (a - b)
                      ELSE 2 * ak * rem > at * 2 ^ (a - b)

\* math.floor(k * (s / t)) on doubles, for integers k, s and t # 0.  A
\* quotient k * s / t that is not an integer is at least 1 / |t| away from
\* the integers around it, far more than the rounding of the two operations.
FloatFloor(k, s, t) ==
    Floor(Rat(k * s, t)) - (IF FloorIsOneBelow(k, s, t) THEN 1 ELSE 0)

\* remainders.sort(key=lambda x: x[1], reverse=True): the orders of the cells
\* by decreasing remainder ideal - floor(ideal), ideal = k * (score / total).
\* The sort is stable, so two cells whose float remainders are equal keep
\* their input order.  The float remainders of two cells with equal exact
\* remainders are equal when the cells have the same score or when both
\* quotients score / total are exact; otherwise rounding decides the order.
\* A cell whose float ideal fell below the integer it is exactly has a
\* remainder just under 1, above the remainder of every other cell.
\* StableDescending lists the cells of D by decreasing rem, cells of equal rem
\* by increasing index.
RECURSIVE StableDescending(_, _)
StableDescending(D, rem) ==
    IF D = {} THEN <<>>
    ELSE LET c == CHOOSE x \in D :
                      \A y \in D : \/ RatLess(rem[y], rem[x])
                                    \/ (rem[y] = rem[x] /\ x <= y)
         IN  <<c>> \o StableDescending(D \ {c}, rem)

SortedOrders(k, score, total) ==
    LET m == Len(score)
        rem == [c \in 1..m |->
                   RatAdd(Rat(k * score[c], total),
                          <<0 - FloatFloor(k, score[c], total), 1>>)]
        exact == [c \in 1..m |-> ExactQuotient(score[c], total)]
        stable(a, b) == score[a] = score[b] \/ (exact[a] /\ exact[b])
    IN  IF \A a, b \in 1..m : rem[a] = rem[b] => stable(a, b)
        THEN {StableDescending(1..m, rem)}
        ELSE {o \in Injections(m, m) :
                 \A p, q \in 1..m : p < q =>
                     /\ ~RatLess(rem[o[p]], rem[o[q]])
                     /\ (rem[o[p]] = rem[o[q]] /\ stable(o[p], o[q])) => o[p] < o[q]}

\* An allocation that keeps the floors and hands out no remaining unit.
Allocate_floors_only(k, score, total, order) ==
    [c \in 1..Len(score) |-> FloatFloor(k, score[c], total)]

\* An allocation that hands the remaining units to the cells at the end of
\* the sorted remainders, the smallest first.
Allocate_smallest_remainders_first(k, score, total, order) ==
    LET m == Len(score)
        integer_part == [c \in 1..m |-> FloatFloor(k, score[c], total)]
        k_remaining == k - SumSeq(integer_part)
        extra == Min(k_remaining, m)
    IN  [c \in 1..m |->
            integer_part[c] + (IF \E i \in 1..extra : order[m + 1 - i] = c THEN 1 ELSE 0)]

\* An allocation whose distribution loop starts one place too late in the
\* sorted remainders, so that the largest remainder gets no unit.
Allocate_skipping_largest_remainder(k, score, total, order) ==
    LET m == Len(score)
        integer_part == [c \in 1..m |-> FloatFloor(k, score[c], total)]
        k_remaining == k - SumSeq(integer_part)
        extra == Min(k_remaining, m)
    IN  [c \in 1..m |->
            integer_part[c] + (IF \E i \in 2..extra : order[i] = c THEN 1 ELSE 0)]

\* The proportional allocation shared by the two grid samplers: the floor of
\* every ideal share, then one more unit for the first
\* min(k_remaining, len(remainders)) cells of the sorted remainders.
Allocate(k, score, total, order) ==
    LET m == Len(score)
        integer_part == [c \in 1..m |-> FloatFloor(k, score[c], total)]
        k_remaining == k - SumSeq(integer_part)
        extra == Min(k_remaining, m)
    IN  [c \in 1..m |->
            integer_part[c] + (IF \E i \in 1..extra : order[i] = c THEN 1 ELSE 0)]

\* The random selection loop: for every cell with a positive quota, in the
\* order of k_alloc, actual_pick = min(num_to_pick, cell.size()) places are
\* sampled from the cell and appended to R.  The set of all R it can build
\* from cell c onwards.
RECURSIVE Picks(_, _, _)
Picks(cells, alloc, c) ==
    IF c > Len(cells) THEN {<<>>}
    ELSE LET actual_pick == Min(alloc[c], size(cells[c]))
             here == IF alloc[c] > 0 /\ actual_pick > 0
                     THEN Samples(cells[c], actual_pick)
                     ELSE {<<>>}
         IN  {h \o r : h \in here, r \in Picks(cells, alloc, c + 1)}

\* cell_stats[cell_id] = (total_count, selected_count)
CellStats(cells, alloc) ==
    [c \in 1..Len(cells) |-> <<size(cells[c]), alloc[c]>>]

\* return [], 0.0, 0.0, 0.0, prep_time, 0.0, 0, {}
EmptyResult ==
    [kind |-> "return", R |-> <<>>, score |-> <<0, 1>>, sum_psS |-> 0,
     sum_psR |-> 0, lenCL |-> 0, cell_stats |-> <<>>]

\* The end of both grid samplers: an empty R raises ValueError, otherwise
\* HPFR scores R with K = len(S).
grid_result(Rs, W, cells, alloc) ==
    IF Rs = <<>> THEN Raise("ValueError")
    ELSE LET h == HPFR(Rs, psS, sS, W, Len(S))
         IN  IF h.kind = "raise" THEN h
             ELSE [kind |-> "return", R |-> Rs, score |-> h.score,
                   sum_psS |-> h.sum_psS, sum_psR |-> h.sum_psR,
                   lenCL |-> Len(cells), cell_stats |-> CellStats(cells, alloc)]

\* Cell scores of grid_sampling (the cell's population) and of
\* grid_weighted_sampling (count * sum of the members' rF).
SizeScore(cells) == [c \in 1..Len(cells) |-> size(cells[c])]

WeightScore(cells) ==
    [c \in 1..Len(cells) |->
        size(cells[c]) * SumSeq([i \in 1..size(cells[c]) |-> cells[c][i].rF])]

\* ---------------------------------------------------------------- calls
\* The calls are made one after the other by a single-threaded caller (the
\* loop over the registered algorithms of ExperimentRunner.run_all): a call
\* starts when no call is pending, runs to completion, and the caller then
\* takes its result before it makes the next call.
\* A call carries its name, its arguments and how many times in a row the
\* caller has made it.
NoCall ==
    [op |-> "none", k |-> 0, W |-> 0, G |-> 0, R |-> <<>>, pi |-> 0, pj |-> 0,
     times |-> 0]

NoRet == [kind |-> "none"]

Idle == ret = NoRet

\* The budgets k the callers pass: -MaxNegBudget..MaxBudget.
Budgets == (0 - MaxNegBudget)..MaxBudget

Args(op, k, W, G) ==
    [op |-> op, k |-> k, W |-> W, G |-> G, R |-> <<>>, pi |-> 0, pj |-> 0,
     times |-> 1]

\* No batch of ExperimentRunner.run_all is running.
NoBatchRuns ==
    /\ batch = <<>>
    /\ pc = [at |-> "idle", c |-> 0, g |-> 0, d |-> 0, G |-> 0, a |-> 0]
    /\ precomputes = <<>>
    /\ row = <<>>
    /\ results = <<>>
    /\ logs = <<>>
    /\ plots = <<>>
    /\ saves = 0

\* The caller has taken the result (or caught the error); the locals of the
\* call are gone, the shared inputs stay.
Discard ==
    /\ ~Idle
    /\ call' = NoCall
    /\ ret' = NoRet
    /\ CL' = <<>>
    /\ k_alloc' = <<>>
    /\ R' = <<>>
    /\ UNCHANGED <<S, psS, sS, runner>>

\* A sampler that shuffles the list S in place and takes its first k places.
Call_biased_sampling_shuffling_S ==
    /\ Idle
    /\ \E k \in Budgets : \E shuffled \in Samples(S, Len(S)) :
        /\ S' = shuffled
        /\ IF SampleRaises(S, k)
           THEN /\ R' = <<>>
                /\ \E W \in 1..MaxW :
                       /\ call' = Args("biased_sampling", k, W, 0)
                       /\ ret' = Raise("ValueError")
           ELSE /\ R' = SubSeq(shuffled, 1, k)
                /\ \E W \in 1..MaxW :
                       /\ call' = Args("biased_sampling", k, W, 0)
                       /\ ret' = biased_result(SubSeq(shuffled, 1, k), W)
        /\ CL' = <<>>
        /\ k_alloc' = <<>>
        /\ UNCHANGED <<psS, sS, runner>>

\* biased_sampling(S, k, W, psS, sS)
Call_biased_sampling ==
    /\ Idle
    /\ \E k \in Budgets :
        /\ IF SampleRaises(S, k)
           THEN /\ R' = <<>>
                /\ \E W \in 1..MaxW :
                       /\ call' = Args("biased_sampling", k, W, 0)
                       /\ ret' = Raise("ValueError")
           ELSE \E R_sampling \in Samples(S, k) :
                /\ R' = R_sampling
                /\ \E W \in 1..MaxW :
                       /\ call' = Args("biased_sampling", k, W, 0)
                       /\ ret' = biased_result(R_sampling, W)
        /\ CL' = <<>>
        /\ k_alloc' = <<>>
        /\ UNCHANGED <<S, psS, sS, runner>>

\* The caller calls biased_sampling a second time in a row, with the
\* arguments of the call that has just ended; random.sample draws again from
\* the generator of the random module, whose state the first call advanced.
Call_biased_sampling_again ==
    /\ call.op = "biased_sampling"
    /\ call.times = 1
    /\ call' = [call EXCEPT !.times = 2]
    /\ IF SampleRaises(S, call.k)
       THEN /\ R' = <<>>
            /\ ret' = Raise("ValueError")
       ELSE \E R_sampling \in Samples(S, call.k) :
            /\ R' = R_sampling
            /\ ret' = biased_result(R_sampling, call.W)
    /\ UNCHANGED <<S, psS, sS, CL, k_alloc, runner>>

\* biased_sampling_div(S, k, W): base_precompute(S) rebuilds the tables of S
\* (the ones the data set was set up with), then select_random and HPFR_div.
Call_biased_sampling_div ==
    /\ Idle
    /\ \E k \in Budgets :
        /\ IF SampleRaises(S, k)
           THEN /\ R' = <<>>
                /\ \E W \in 1..MaxW :
                       /\ call' = Args("biased_sampling_div", k, W, 0)
                       /\ ret' = Raise("ValueError")
           ELSE \E R_sampling \in Samples(S, k) :
                /\ R' = R_sampling
                /\ \E W \in 1..MaxW :
                       /\ call' = Args("biased_sampling_div", k, W, 0)
                       /\ ret' = biased_div_result(R_sampling, W, psS, sS)
        /\ CL' = <<>>
        /\ k_alloc' = <<>>
        /\ UNCHANGED <<S, psS, sS, runner>>

\* The selection step of both grid samplers from the cell scores on: the
\* allocation, the random selection, cell_stats and the final scoring.
GridSelect(op, k, G, cells, score, total) ==
    \E order \in SortedOrders(k, score, total) :
        LET alloc == Allocate(k, score, total, order) IN
        /\ k_alloc' = alloc
        /\ \E Rs \in Picks(cells, alloc, 1) :
               /\ R' = Rs
               /\ \E W \in 1..MaxW :
                      /\ call' = Args(op, k, W, G)
                      /\ ret' = grid_result(Rs, W, cells, alloc)

\* The early return of both grid samplers.
GridEmpty(op, k, G) ==
    /\ k_alloc' = <<>>
    /\ R' = <<>>
    /\ \E W \in 1..MaxW :
           /\ call' = Args(op, k, W, G)
           /\ ret' = EmptyResult

\* grid_sampling(S, k, W, G, optimal_psS, optimal_sS) when the grid of G has
\* the non-empty cells `cells`.
Run_grid_sampling(k, G, cells) ==
    LET K == Len(S) IN
    /\ CL' = cells
    /\ IF K = 0 \/ k = 0
       THEN GridEmpty("grid_sampling", k, G)
       ELSE GridSelect("grid_sampling", k, G, cells, SizeScore(cells), K)
    /\ UNCHANGED <<S, psS, sS, runner>>

Call_grid_sampling ==
    /\ Idle
    /\ \E G \in 1..MaxG : \E cells \in FullCells(G) : \E k \in Budgets :
        Run_grid_sampling(k, G, cells)

\* grid_sampling on scattered data: the grid is fine enough (G is the number
\* of places) for every place to have a cell of its own; k is 1..K.
Call_grid_sampling_scattered ==
    /\ Idle
    /\ \E k \in 1..Len(S) :
        Run_grid_sampling(k, Len(S), [i \in 1..Len(S) |-> <<S[i]>>])

\* grid_weighted_sampling(S, k, W, G, optimal_psS, optimal_sS)
Call_grid_weighted_sampling ==
    /\ Idle
    /\ \E G \in 1..MaxG : \E cells \in FullCells(G) : \E k \in Budgets :
        LET K == Len(S)
            cell_scores == WeightScore(cells)
            total_grid_score == SumSeq(cell_scores)
        IN
        /\ CL' = cells
        /\ IF K = 0 \/ k = 0 \/ total_grid_score = 0
           THEN GridEmpty("grid_weighted_sampling", k, G)
           ELSE GridSelect("grid_weighted_sampling", k, G, cells,
                           cell_scores, total_grid_score)
        /\ UNCHANGED <<S, psS, sS, runner>>

\* spacial_proximity(sS, pi, pj) on two places of S
Call_spacial_proximity ==
    /\ Idle
    /\ \E i, j \in 1..Len(S) :
        /\ call' = [NoCall EXCEPT !.op = "spacial_proximity", !.pi = i, !.pj = j,
                                !.times = 1]
        /\ ret' = [kind |-> "return", value |-> spacial_proximity(sS, S[i], S[j])]
        /\ UNCHANGED <<S, psS, sS, CL, k_alloc, R, runner>>

\* HPF on two different places of S, for a result size k of 1..MaxBudget + 1.
Call_HPF ==
    /\ Idle
    /\ \E i, j \in 1..Len(S) : \E k \in 1..(MaxBudget + 1) : \E W \in 1..MaxW :
        /\ i # j
        /\ call' = [NoCall EXCEPT !.op = "HPF", !.pi = i, !.pj = j, !.k = k,
                                !.W = W, !.times = 1]
        /\ ret' = HPF(S[i], S[j], W, psS, sS, k)
        /\ UNCHANGED <<S, psS, sS, CL, k_alloc, R, runner>>

\* The lists of distinct places of S, in the order of S.
SubLists == {SelectSeq(S, LAMBDA p : p.id \in D) : D \in SUBSET (1..Len(S))}

\* HPFR(R, psS, sS, W, K) on a list R of distinct places of S (the empty list
\* included), with K = len(S) as every caller passes it
Call_HPFR ==
    /\ Idle
    /\ \E Rs \in SubLists : \E W \in 1..MaxW :
        /\ call' = [NoCall EXCEPT !.op = "HPFR", !.k = Len(Rs), !.W = W, !.R = Rs,
                                  !.times = 1]
        /\ ret' = HPFR(Rs, psS, sS, W, Len(S))
        /\ UNCHANGED <<S, psS, sS, CL, k_alloc, R, runner>>

\* A second call that adds its W * psR to the sum the first call left behind.
Call_HPFR_again_keeping_psR ==
    /\ call.op = "HPFR"
    /\ call.times = 1
    /\ call' = [call EXCEPT !.times = 2]
    /\ ret' = LET h == HPFR(call.R, psS, sS, call.W, Len(S))
              IN  IF h.kind = "return"
                  THEN [h EXCEPT !.sum_psR = @ + ret.sum_psR]
                  ELSE h
    /\ UNCHANGED <<S, psS, sS, CL, k_alloc, R, runner>>

\* The caller calls HPFR a second time in a row, with the arguments of the
\* call that has just ended: psR is built anew from zeros, the tables are
\* only read.
Call_HPFR_again ==
    /\ call.op = "HPFR"
    /\ call.times = 1
    /\ call' = [call EXCEPT !.times = 2]
    /\ ret' = HPFR(call.R, psS, sS, call.W, Len(S))
    /\ UNCHANGED <<S, psS, sS, CL, k_alloc, R, runner>>

\* HPFR_div(R, psS, sS, W, K) on the same lists
Call_HPFR_div ==
    /\ Idle
    /\ \E Rs \in SubLists : \E W \in 1..MaxW :
        /\ call' = [NoCall EXCEPT !.op = "HPFR_div", !.k = Len(Rs), !.W = W, !.R = Rs,
                                  !.times = 1]
        /\ ret' = HPFR_div(Rs, psS, sS, W, Len(S))
        /\ UNCHANGED <<S, psS, sS, CL, k_alloc, R, runner>>

\* ------------------------------------------------------- sampler runs
\* A data set of 1..MaxN places with ids 1..n and weights 0..MaxRF, with the
\* tables of a precomputation that stores every pair once (i < j), here with
\* proximity 1 for every pair; psS[i] is the sum of the proximities of i to
\* the n - 1 others.
Init ==
    /\ \E n \in 1..MaxN : \E w \in [1..n -> 0..MaxRF] :
           S = [i \in 1..n |-> [id |-> i, rF |-> w[i]]]
    /\ sS = [p \in {q \in (1..Len(S)) \X (1..Len(S)) : q[1] < q[2]} |-> 1]
    /\ psS = [i \in 1..Len(S) |-> Len(S) - 1]
    /\ CL = <<>>
    /\ k_alloc = <<>>
    /\ R = <<>>
    /\ call = NoCall
    /\ ret = NoRet
    /\ NoBatchRuns

Next ==
    \/ Call_biased_sampling
    \/ Call_biased_sampling_again
    \/ Call_biased_sampling_div
    \/ Call_grid_sampling
    \/ Call_grid_weighted_sampling
    \/ Call_HPFR
    \/ Call_HPFR_again
    \/ Call_HPFR_div
    \/ Discard

Spec == Init /\ [][Next]_vars

\* -------------------------------------------------------- signed runs
\* The grid samplers on data sets whose weights may be negative: 1..MaxN
\* places with weights -MaxNegRF..MaxRF, listed by non-decreasing weight (the
\* cells of FullCells group them in every way), with the tables of the
\* sampler runs.
InitSigned ==
    /\ \E n \in 1..MaxN : \E w \in [1..n -> (0 - MaxNegRF)..MaxRF] :
           /\ \A i \in 1..(n - 1) : w[i] <= w[i + 1]
           /\ S = [i \in 1..n |-> [id |-> i, rF |-> w[i]]]
    /\ sS = [p \in {q \in (1..Len(S)) \X (1..Len(S)) : q[1] < q[2]} |-> 1]
    /\ psS = [i \in 1..Len(S) |-> Len(S) - 1]
    /\ CL = <<>>
    /\ k_alloc = <<>>
    /\ R = <<>>
    /\ call = NoCall
    /\ ret = NoRet
    /\ NoBatchRuns

NextSigned ==
    \/ Call_grid_sampling
    \/ Call_grid_weighted_sampling
    \/ Discard

SpecSigned == InitSigned /\ [][NextSigned]_vars

\* ------------------------------------------------------- uniform runs
\* The grid samplers on the larger data sets of 1..MaxN + 1 places that all
\* have the weight MaxRF, with the tables of the sampler runs.
InitUniform ==
    /\ \E n \in 1..(MaxN + 1) : S = [i \in 1..n |-> [id |-> i, rF |-> MaxRF]]
    /\ sS = [p \in {q \in (1..Len(S)) \X (1..Len(S)) : q[1] < q[2]} |-> 1]
    /\ psS = [i \in 1..Len(S) |-> Len(S) - 1]
    /\ CL = <<>>
    /\ k_alloc = <<>>
    /\ R = <<>>
    /\ call = NoCall
    /\ ret = NoRet
    /\ NoBatchRuns

NextUniform ==
    \/ Call_grid_sampling
    \/ Call_grid_weighted_sampling
    \/ Discard

SpecUniform == InitUniform /\ [][NextUniform]_vars

\* ----------------------------------------------------- scattered runs
\* Scattered data: 1..MaxScattered places of weight MaxRF, no two of them near
\* each other (the table sS is empty).
InitScattered ==
    /\ \E n \in 1..MaxScattered : S = [i \in 1..n |-> [id |-> i, rF |-> MaxRF]]
    /\ sS = <<>>
    /\ psS = [i \in 1..Len(S) |-> 0]
    /\ CL = <<>>
    /\ k_alloc = <<>>
    /\ R = <<>>
    /\ call = NoCall
    /\ ret = NoRet
    /\ NoBatchRuns

NextScattered ==
    \/ Call_grid_sampling_scattered
    \/ Discard

SpecScattered == InitScattered /\ [][NextScattered]_vars

\* ------------------------------------------------------- scoring runs
\* The tables over the ids 1..n that store at most MaxStored keys (i, j),
\* i # j, in either or both directions, with values 0..MaxProx.
Pairs(n) == {q \in (1..n) \X (1..n) : q[1] # q[2]}

Tables(n) ==
    UNION {[D -> 0..MaxProx] : D \in {E \in SUBSET Pairs(n) : Cardinality(E) <= MaxStored}}

\* base_precompute: psS[i] is the sum of the proximities of i to all others.
RowSums(places, t) ==
    [i \in 1..Len(places) |->
        SumSeq([j \in 1..Len(places) |->
            IF j = i THEN 0 ELSE spacial_proximity(t, places[i], places[j])])]

\* A data set of 1..MaxN places with ids 1..n whose weights run through
\* 0..MaxRF (place i has weight i % (MaxRF + 1)), with any table sS of
\* Tables(n) and the psS that the precomputation derives from it.
InitScore ==
    /\ \E n \in 1..MaxN :
           /\ S = [i \in 1..n |-> [id |-> i, rF |-> i % (MaxRF + 1)]]
           /\ sS \in Tables(n)
    /\ psS = RowSums(S, sS)
    /\ CL = <<>>
    /\ k_alloc = <<>>
    /\ R = <<>>
    /\ call = NoCall
    /\ ret = NoRet
    /\ NoBatchRuns

NextScore ==
    \/ Call_spacial_proximity
    \/ Call_HPFR
    \/ Call_HPFR_again
    \/ Call_HPFR_div
    \/ Discard

SpecScore == InitScore /\ [][NextScore]_vars

\* The pairwise score HPF on the same data sets and tables.
NextPair ==
    \/ Call_HPF
    \/ Discard

SpecPair == InitScore /\ [][NextPair]_vars

\* -------------------------------------------------------- runner.py
\* ExperimentRunner.run_all(datasets, combos, gammas, G_values) walks
\*   for (K, k) in combos: for g in gammas: for shape in datasets:
\*       load, precompute; for G in G_values: for every registered algorithm:
\*           _run_and_record; then logger.log(row) and the plot callback
\* and ends with logger.save().  pc holds the indices c, g, d, G, a of the
\* five loops and the place `at` inside the body.

\* The algorithms registered with the runner, in registration order.
Algorithms == <<"biased_sampling", "grid_sampling", "grid_weighted_sampling">>

\* The members of the set D of numbers in increasing order.
RECURSIVE Ascending(_)
Ascending(D) ==
    IF D = {} THEN <<>>
    ELSE LET x == CHOOSE y \in D : \A z \in D : y <= z
         IN  <<x>> \o Ascending(D \ {x})

\* The combo lists of the form of config.COMBO: one data set size K of
\* 1..MaxSizes with up to MaxCombos budgets k of 1..K in increasing order.
ComboLists ==
    UNION {{[i \in 1..Cardinality(ks) |-> <<K, Ascending(ks)[i]>>] :
               ks \in {D \in SUBSET (1..K) : D # {} /\ Cardinality(D) <= MaxCombos}} :
           K \in 1..MaxSizes}

\* The batches: a combo list, the gammas 1..n, the shapes 1..m, and the grid
\* sizes 1..MaxG.  Of the shapes, load_dataset finds those of `found`
\* (non-empty for every K) and base_precompute raises on those of `broken`;
\* the grid samplers of `raising` raise on the data of the batch (a
\* degenerate total weight, an empty selection); plot_callback tells whether
\* a callback was given.
Batches ==
    {[combos |-> cs, gammas |-> [i \in 1..n |-> i],
      datasets |-> [i \in 1..m |-> i], found |-> f, broken |-> b,
      raising |-> r, plot_callback |-> cb,
      G_values |-> [i \in 1..MaxG |-> i]] :
        cs \in ComboLists,
        n \in 1..MaxGammas,
        m \in 1..MaxShapes,
        f \in SUBSET (1..MaxShapes),
        b \in SUBSET (1..MaxShapes),
        r \in SUBSET {"grid_sampling", "grid_weighted_sampling"},
        cb \in BOOLEAN}

\* Numbers the runner stores without computing with them, other than adding
\* two of them: a sum of named quantities, the empty sum being 0.
Zero == <<>>

Sym(s) == <<s>>

Plus(a, b) == a \o b

\* The tuple a sampler returns when it returns:
\*   biased_sampling: R_sampling, score, sum_psS, sum_psR, 0.0, pruning_time
\*   grid_sampling, grid_weighted_sampling:
\*     R, score, sum_psS, sum_psR, prep_time, selection_time, len(CL), cell_stats
Returned(name) ==
    IF name = "biased_sampling"
    THEN <<Sym("R_sampling"), Sym("score"), Sym("sum_psS"), Sym("sum_psR"),
           Zero, Sym("pruning_time")>>
    ELSE <<Sym("R"), Sym("score"), Sym("sum_psS"), Sym("sum_psR"),
           Sym("prep_time"), Sym("selection_time"), Sym("len(CL)"),
           Sym("cell_stats")>>

\* func(**call_kwargs): the sampler raises or returns its tuple.
AlgorithmOutcome(name) ==
    IF name \in batch.raising THEN Raise("Exception")
    ELSE [kind |-> "return", res |-> Returned(name)]

Suffixes ==
    <<"hpfr", "pss_sum", "psr_sum", "rf_sum", "prep_time", "sel_time", "x_time">>

\* f"{name}_{suffix}"
Key(name, suffix) == name \o "_" \o suffix

\* row[key] = v
Put(rw, key, v) == [x \in DOMAIN rw \cup {key} |-> IF x = key THEN v ELSE rw[x]]

\* The except branch of _run_and_record: the seven fields of the algorithm
\* are 0 and the call returns None.
RecordFailure(name, rw) ==
    [row |-> [x \in DOMAIN rw \cup {Key(name, Suffixes[i]) : i \in DOMAIN Suffixes} |->
                 IF \E i \in DOMAIN Suffixes : x = Key(name, Suffixes[i])
                 THEN Zero ELSE rw[x]],
     result |-> <<>>]

\* A handler whose except branch also resets the row's cell count to 0.
run_and_record_resetting_lenCL(name, out, rw) ==
    IF out.kind = "raise" \/ Len(out.res) < 7
    THEN RecordFailure(name, Put(rw, "lenCL", Zero))
    ELSE [row |-> IF Len(out.res) > 7 THEN Put(rw, "lenCL", out.res[8]) ELSE rw,
          result |-> <<[R |-> out.res[1], score |-> out.res[2],
                        raw_res |-> out.res]>>]

\* _run_and_record(name, algo_def, S, k, W, G, row, context) from the outcome
\* `out` of the algorithm on: the row it leaves and what it returns (<<>> is
\* None).  res[0..6] are read first, res[6] of a shorter tuple is an
\* IndexError inside the try; then lenCL is res[7] if there is one, then the
\* seven fields are stored.
run_and_record(name, out, rw) ==
    IF out.kind = "raise"
    THEN RecordFailure(name, rw)
    ELSE LET res == out.res
         IN  IF Len(res) < 7
             THEN RecordFailure(name, rw)
             ELSE LET score == res[2]
                      sum_pss == res[3]
                      sum_psr == res[4]
                      sum_rf == res[5]
                      prep_t == IF name = "base_iadu" THEN Sym("base_prep_time")
                                ELSE res[6]
                      sel_t == res[7]
                      r0 == IF Len(res) > 7 THEN Put(rw, "lenCL", res[8]) ELSE rw
                      r1 == Put(r0, Key(name, "hpfr"), score)
                      r2 == Put(r1, Key(name, "pss_sum"), sum_pss)
                      r3 == Put(r2, Key(name, "psr_sum"), sum_psr)
                      r4 == Put(r3, Key(name, "rf_sum"), sum_rf)
                      r5 == Put(r4, Key(name, "prep_time"), prep_t)
                      r6 == Put(r5, Key(name, "sel_time"), sel_t)
                      r7 == Put(r6, Key(name, "x_time"), Plus(prep_t, sel_t))
                 IN  [row |-> r7,
                      result |-> <<[R |-> res[1], score |-> score,
                                    raw_res |-> res]>>]

\* The (K, k), gamma, shape and G of the loops at position p, and W = g*K/k.
RunK(p) == batch.combos[p.c][1]

Runk(p) == batch.combos[p.c][2]

RunGamma(p) == batch.gammas[p.g]

RunShape(p) == batch.datasets[p.d]

RunG(p) == batch.G_values[p.G]

RunW(p) == Rat(RunGamma(p) * RunK(p), Runk(p))

\* row = {"shape": shape, "K": K, "k": k, "W": W, "g*K/k": f"{g}*K/k",
\*        "G": G, "lenCL": 0}
NewRow(p) ==
    [x \in {"shape", "K", "k", "W", "g*K/k", "G", "lenCL"} |->
        CASE x = "shape" -> Sym(RunShape(p))
          [] x = "K" -> Sym(RunK(p))
          [] x = "k" -> Sym(Runk(p))
          [] x = "W" -> Sym(RunW(p))
          [] x = "g*K/k" -> <<RunGamma(p), "*K/k">>
          [] x = "G" -> Sym(RunG(p))
          [] x = "lenCL" -> Zero]

\* plot_bridge(S, shape, K, k, G, algo_results, context=None): nothing for an
\* empty algo_results; otherwise W and g are read from context, 0 when the
\* context is None, and go into the title and the file name
\*   f"plots/{shape}_K{K}_k{k}_G{G}_W{W:.2f}_g{g}.pdf"
plot_bridge(shape, K, k, G, algo_results, context) ==
    IF DOMAIN algo_results = {} THEN <<>>
    ELSE LET W == IF context # <<>> THEN context[1].W ELSE Rat(0, 1)
             g == IF context # <<>> THEN context[1].g ELSE 0
         IN  <<[shape |-> shape, K |-> K, k |-> k, G |-> G, W |-> W, g |-> g]>>

\* The position after the body of `for shape in datasets` at position p: the
\* next shape, else the next gamma, else the next combo, else logger.save().
NextDataset(p) ==
    IF p.d < Len(batch.datasets)
    THEN [p EXCEPT !.at = "dataset", !.d = @ + 1, !.G = 0, !.a = 0]
    ELSE IF p.g < Len(batch.gammas)
    THEN [p EXCEPT !.at = "dataset", !.g = @ + 1, !.d = 1, !.G = 0, !.a = 0]
    ELSE IF p.c < Len(batch.combos)
    THEN [p EXCEPT !.at = "dataset", !.c = @ + 1, !.g = 1, !.d = 1, !.G = 0, !.a = 0]
    ELSE [at |-> "save", c |-> 0, g |-> 0, d |-> 0, G |-> 0, a |-> 0]

\* The position after the body of `for G in G_values` at position p.
NextG(p) ==
    IF p.G < Len(batch.G_values)
    THEN [p EXCEPT !.at = "algo", !.G = @ + 1, !.a = 1]
    ELSE NextDataset(p)

\* run_all moves to position p; at the head of the body of `for G` it makes
\* the row of the tuple and an empty current_algo_results.
MoveTo(p) ==
    /\ pc' = p
    /\ IF p.at = "algo"
       THEN /\ row' = NewRow(p)
            /\ results' = <<>>
       ELSE UNCHANGED <<row, results>>

\* The head of the body of `for shape in datasets`: S = load_dataset(shape, K);
\* an empty S skips the shape; otherwise base_precompute(S) runs, and either
\* returns the tables (the G loop starts) or raises (the shape is skipped).
LoadAndPrecompute ==
    /\ pc.at = "dataset"
    /\ LET shape == batch.datasets[pc.d]
           K == batch.combos[pc.c][1]
       IN  IF shape \notin batch.found
           THEN /\ MoveTo(NextDataset(pc))
                /\ UNCHANGED precomputes
           ELSE /\ precomputes' = [precomputes EXCEPT ![<<shape, K>>] = @ + 1]
                /\ IF shape \in batch.broken
                   THEN MoveTo(NextDataset(pc))
                   ELSE MoveTo([pc EXCEPT !.at = "algo", !.G = 1, !.a = 1])
    /\ UNCHANGED <<S, psS, sS, CL, k_alloc, R, call, ret, batch, logs, plots, saves>>

\* One pass of `for name, algo_def in self.algorithms.items()`:
\* _run_and_record runs the algorithm with the tables of the precompute context
\* and fills the row; it calls base_precompute for none of them.  What it
\* returns goes into current_algo_results unless it is None.
RunAndRecord ==
    /\ pc.at = "algo"
    /\ LET name == Algorithms[pc.a]
           rec == run_and_record(name, AlgorithmOutcome(name), row)
       IN  /\ row' = rec.row
           /\ results' = IF rec.result # <<>>
                         THEN Put(results, name, rec.result[1])
                         ELSE results
    /\ pc' = IF pc.a < Len(Algorithms)
             THEN [pc EXCEPT !.a = @ + 1]
             ELSE [pc EXCEPT !.at = "log"]
    /\ UNCHANGED <<S, psS, sS, CL, k_alloc, R, call, ret, batch, precomputes,
                   logs, plots, saves>>

\* A runner that logs no row for which every algorithm failed.
LogRow_skipping_failed_rows ==
    /\ pc.at = "log"
    /\ logs' = IF DOMAIN results = {} THEN logs ELSE Append(logs, row)
    /\ IF batch.plot_callback
       THEN /\ pc' = [pc EXCEPT !.at = "plot"]
            /\ UNCHANGED <<row, results>>
       ELSE MoveTo(NextG(pc))
    /\ UNCHANGED <<S, psS, sS, CL, k_alloc, R, call, ret, batch, precomputes,
                   plots, saves>>

\* self.logger.log(row): the logger appends the row to its logs.  Without a
\* plot callback the next G, or the end of the body of `for shape`, follows.
LogRow ==
    /\ pc.at = "log"
    /\ logs' = Append(logs, row)
    /\ IF batch.plot_callback
       THEN /\ pc' = [pc EXCEPT !.at = "plot"]
            /\ UNCHANGED <<row, results>>
       ELSE MoveTo(NextG(pc))
    /\ UNCHANGED <<S, psS, sS, CL, k_alloc, R, call, ret, batch, precomputes,
                   plots, saves>>

\* self.plot_callback(S, shape, K, k, G, current_algo_results): six
\* positional arguments, so plot_bridge's context is its default None.  plots
\* gets the arguments of the call and the file plot_bridge writes, if any.
PlotCallback ==
    /\ pc.at = "plot"
    /\ plots' = Append(plots,
                       [shape |-> RunShape(pc), K |-> RunK(pc), k |-> Runk(pc),
                        G |-> RunG(pc), algo_results |-> results,
                        file |-> plot_bridge(RunShape(pc), RunK(pc), Runk(pc),
                                             RunG(pc), results, <<>>)])
    /\ MoveTo(NextG(pc))
    /\ UNCHANGED <<S, psS, sS, CL, k_alloc, R, call, ret, batch, precomputes,
                   logs, saves>>

\* self.logger.save() after the last combo.
Save ==
    /\ pc.at = "save"
    /\ pc' = [pc EXCEPT !.at = "done"]
    /\ saves' = saves + 1
    /\ UNCHANGED <<S, psS, sS, CL, k_alloc, R, call, ret, batch, precomputes,
                   row, results, logs, plots>>

\* run_all has just been called with a batch; nothing is precomputed yet.
InitRunner ==
    /\ batch \in Batches
    /\ batch.broken \subseteq batch.found
    /\ batch.found \subseteq 1..Len(batch.datasets)
    /\ pc = [at |-> "dataset", c |-> 1, g |-> 1, d |-> 1, G |-> 0, a |-> 0]
    /\ precomputes = [ds \in (1..MaxShapes) \X (1..MaxSizes) |-> 0]
    /\ row = <<>>
    /\ results = <<>>
    /\ logs = <<>>
    /\ plots = <<>>
    /\ saves = 0
    /\ S = <<>>
    /\ psS = <<>>
    /\ sS = <<>>
    /\ CL = <<>>
    /\ k_alloc = <<>>
    /\ R = <<>>
    /\ call = NoCall
    /\ ret = NoRet

NextRunner ==
    \/ LoadAndPrecompute
    \/ RunAndRecord
    \/ LogRow
    \/ PlotCallback
    \/ Save

SpecRunner == InitRunner /\ [][NextRunner]_vars

\* ================================================================ claims
GridOps == {"grid_sampling", "grid_weighted_sampling"}

SamplerOps == GridOps \cup {"biased_sampling"}

\* The list Rs holds pairwise-distinct places, all of them places of S.
DistinctPlacesOfS(Rs) ==
    /\ \A a, b \in 1..Len(Rs) : a # b => Rs[a].id # Rs[b].id
    /\ \A a \in 1..Len(Rs) : \E i \in 1..Len(S) : Rs[a] = S[i]

\* ----------------------------------------------------------------- C1
\* intra[i]: the proximity of place i to the other places of the set ids,
\* summed over ids only.
Intra(ids, i) ==
    SumOver(ids \ {i}, [j \in ids \ {i} |-> spacial_proximity(sS, S[i], S[j])])

\* C1: for a list R of k >= 1 distinct places and K # W, HPFR returns
\* (score, sumPsS, sumPsR) with sumPsS the sum of psS over R, sumPsR the sum of
\* W * intra[i] over R, intra[i] summed over the other members of R only, and
\* score = (sum of rF over R) / (2k) + (sumPsS - sumPsR) / (2k(K - W)).
C1_HPFRFormula ==
    (call.op = "HPFR" /\ Len(call.R) >= 1 /\ Len(S) # call.W) =>
        LET ids == {call.R[n].id : n \in 1..Len(call.R)}
            k == Cardinality(ids)
            K == Len(S)
            sumRF == SumOver(ids, [i \in ids |-> S[i].rF])
            sumPsS == SumOver(ids, psS)
            sumPsR == SumOver(ids, [i \in ids |-> call.W * Intra(ids, i)])
        IN  /\ ret.kind = "return"
            /\ ret.sum_psS = sumPsS
            /\ ret.sum_psR = sumPsR
            /\ ret.score = RatAdd(Rat(sumRF, 2 * k),
                                  Rat(sumPsS - sumPsR, 2 * k * (K - call.W)))

\* HPFR scored a proper subset R of S, two places of three, that are close to
\* each other and to the third place: psS and the intra sums differ.
C1_Witness ==
    /\ call.op = "HPFR"
    /\ Len(S) = 3
    /\ Len(call.R) = 2
    /\ ret.kind = "return"
    /\ ret.sum_psR > 0
    /\ ret.sum_psS > ret.sum_psR

\* ----------------------------------------------------------------- C2
\* C2: in both grid samplers, for k >= 1, the quotas k_alloc sum to exactly
\* min(k, |S|).
C2_QuotasSumToMin ==
    (call.op \in GridOps /\ call.k >= 1 /\ k_alloc # <<>>) =>
        SumSeq(k_alloc) = Min(call.k, Len(S))

\* ----------------------------------------------------------------- C3
\* C3: grid_sampling with k >= 1 selects exactly min(k, |S|) pairwise-distinct
\* places of S, whatever is drawn inside the cells, and returns that selection
\* (K # W, so that the scoring is defined).
C3_GridSamplingSelectsMin ==
    (call.op = "grid_sampling" /\ call.k >= 1) =>
        /\ Len(R) = Min(call.k, Len(S))
        /\ DistinctPlacesOfS(R)
        /\ call.W # Len(S) => (ret.kind = "return" /\ ret.R = R)

\* grid_sampling returned two places of three that lie in two or more cells.
C3_Witness ==
    /\ call.op = "grid_sampling"
    /\ Len(S) = 3
    /\ Len(CL) >= 2
    /\ call.k = 2
    /\ ret.kind = "return"
    /\ Len(ret.R) = 2

\* ----------------------------------------------------------------- C4
\* C4: grid_weighted_sampling with k >= 1 and a non-zero total cell score
\* selects exactly min(k, |S|) pairwise-distinct places of S.
C4_WeightedSelectsMin ==
    (call.op = "grid_weighted_sampling" /\ call.k >= 1 /\ k_alloc # <<>>) =>
        /\ Len(R) = Min(call.k, Len(S))
        /\ DistinctPlacesOfS(R)

\* ----------------------------------------------------------------- C5
\* C5: biased_sampling with k >= 1 (and K # W) returns exactly min(k, |S|)
\* pairwise-distinct places of S, also when k > |S|.
C5_BiasedSelectsMin ==
    (call.op = "biased_sampling" /\ call.k >= 1 /\ call.W # Len(S)) =>
        /\ ret.kind = "return"
        /\ Len(ret.R) = Min(call.k, Len(S))
        /\ DistinctPlacesOfS(ret.R)

\* ----------------------------------------------------------------- C6
\* C6 as stated: spacial_proximity(sS, pi, pj) = spacial_proximity(sS, pj, pi)
\* for every table, also when both directions are stored with any values.
C6_SymmetricAnyTable ==
    call.op = "spacial_proximity" =>
        ret.value = spacial_proximity(sS, S[call.pj], S[call.pi])

\* Both directions of the pair are stored, with two different non-zero values.
BothStoredDiffering(i, j) ==
    /\ <<i, j>> \in DOMAIN sS
    /\ <<j, i>> \in DOMAIN sS
    /\ sS[<<i, j>>] # 0
    /\ sS[<<j, i>>] # 0
    /\ sS[<<i, j>>] # sS[<<j, i>>]

\* C6 amended: the lookup is symmetric whenever the two directions are not
\* both stored with different non-zero values: only (i,j) stored, only (j,i)
\* stored, neither stored, or both stored with equal values or with a 0.
C6_SymmetricLookup ==
    (call.op = "spacial_proximity" /\ ~BothStoredDiffering(call.pi, call.pj)) =>
        ret.value = spacial_proximity(sS, S[call.pj], S[call.pi])

\* The pair is stored only as (j, i), with a non-zero value, and the lookup of
\* (i, j) returned that value.
C6_Witness ==
    /\ call.op = "spacial_proximity"
    /\ <<call.pi, call.pj>> \notin DOMAIN sS
    /\ <<call.pj, call.pi>> \in DOMAIN sS
    /\ sS[<<call.pj, call.pi>>] # 0
    /\ ret.value = sS[<<call.pj, call.pi>>]

\* ----------------------------------------------------------------- C7
\* C7: spacial_proximity returns sS[(i,j)] whenever (i,j) is stored, also a
\* stored 0; otherwise sS[(j,i)] whenever (j,i) is stored; otherwise 0.
C7_PresenceLookup ==
    call.op = "spacial_proximity" =>
        ret.value = IF <<call.pi, call.pj>> \in DOMAIN sS THEN sS[<<call.pi, call.pj>>]
                    ELSE IF <<call.pj, call.pi>> \in DOMAIN sS THEN sS[<<call.pj, call.pi>>]
                    ELSE 0

\* ----------------------------------------------------------------- C8
\* C8: no sampler call returns a result tuple whose R is empty.
C8_NoEmptySelectionScored ==
    ~(call.op \in SamplerOps /\ ret.kind = "return" /\ ret.R = <<>>)

\* ----------------------------------------------------------------- C9
\* C9: for S of a single point and k = 1, biased_sampling raises an error and
\* returns no score, for every W.
C9_SinglePointRejected ==
    (call.op = "biased_sampling" /\ Len(S) = 1 /\ call.k = 1) => ret.kind = "raise"

\* ----------------------------------------------------------------- C10
\* C10: when every cell score is zero and k >= 1, grid_weighted_sampling
\* raises an error; it returns no result tuple.
C10_ZeroMassSignalled ==
    (call.op = "grid_weighted_sampling" /\ call.k >= 1
        /\ SumSeq(WeightScore(CL)) = 0) => ret.kind = "raise"

\* ----------------------------------------------------------------- C11
\* C11: HPFR on a non-empty R with W = K = |S| raises an error, and every
\* sampler call with W = |S| ends with an error, never with a result tuple.
C11_DegenerateWeightRaises ==
    /\ (call.op = "HPFR" /\ Len(call.R) >= 1 /\ call.W = Len(S)) => ret.kind = "raise"
    /\ (call.op \in SamplerOps /\ call.W = Len(S)) => ret.kind = "raise"

\* ----------------------------------------------------------------- C12
\* C12: for every k < 0 and every non-empty S, each of the three samplers
\* ends with an error and returns no result tuple.
C12_NegativeBudgetRaises ==
    (call.op \in SamplerOps /\ call.k < 0 /\ Len(S) >= 1) => ret.kind = "raise"

\* ----------------------------------------------------------------- C13
\* C13: in both grid samplers, for every k >= 0 and weights of any sign with a
\* non-zero total cell score, no quota of k_alloc and no selected count of
\* the returned cell_stats is negative.
C13_NoNegativeQuota ==
    (call.op \in GridOps /\ call.k >= 0) =>
        /\ \A c \in DOMAIN k_alloc : k_alloc[c] >= 0
        /\ ret.kind = "return" => \A c \in DOMAIN ret.cell_stats : ret.cell_stats[c][2] >= 0

\* ----------------------------------------------------------------- C14
\* The number of places of the list Rs that are members of the cell c.
DrawnFrom(Rs, c) ==
    Cardinality({n \in 1..Len(Rs) : \E i \in 1..Len(c) : c[i] = Rs[n]})

\* C14: the cell_stats returned by a grid sampler with its selection R have
\* exactly the non-empty cells as keys, and the entry of a cell is (its
\* population, the number of places of R drawn from it); so the selected
\* count is at most the population and the selected counts sum to |R|.
C14_CellStatsCountDrawn ==
    (call.op \in GridOps /\ ret.kind = "return" /\ ret.R # <<>>) =>
        /\ DOMAIN ret.cell_stats = DOMAIN CL
        /\ \A c \in DOMAIN ret.cell_stats :
               /\ ret.cell_stats[c][1] = size(CL[c])
               /\ ret.cell_stats[c][2] = DrawnFrom(ret.R, CL[c])
               /\ ret.cell_stats[c][2] <= ret.cell_stats[c][1]
        /\ SumSeq([c \in DOMAIN ret.cell_stats |-> ret.cell_stats[c][2]]) = Len(ret.R)

\* ----------------------------------------------------------------- C15
\* The cell scores of the last grid sampler call.
CellScores ==
    IF call.op = "grid_sampling" THEN SizeScore(CL) ELSE WeightScore(CL)

\* The ideal share k * score / total of cell c in the last grid sampler call.
Ideal(c) == Rat(call.k * CellScores[c], SumSeq(CellScores))

\* Its fractional remainder ideal - floor(ideal).
Remainder(c) == RatAdd(Ideal(c), <<-Floor(Ideal(c)), 1>>)

\* The units cell c received beyond the floor of its ideal share.
ExtraUnits(c) == k_alloc[c] - Floor(Ideal(c))

\* C15: the budget left after flooring is handed out one unit per cell by
\* decreasing fractional remainder, ties by input order: a cell receives an
\* extra unit only if every cell with a larger remainder, and every earlier
\* cell with an equal remainder, receives one too; no cell receives more than
\* one extra unit.
C15_LargestRemainderFirst ==
    (call.op \in GridOps /\ k_alloc # <<>>) =>
        \A c \in DOMAIN k_alloc :
            /\ ExtraUnits(c) \in {0, 1}
            /\ ExtraUnits(c) = 1 =>
                   \A d \in DOMAIN k_alloc :
                       (\/ RatLess(Remainder(c), Remainder(d))
                        \/ (Remainder(d) = Remainder(c) /\ d < c))
                           => ExtraUnits(d) = 1

\* ----------------------------------------------------------------- C16
\* C16: whenever HPFR accepts the arguments, HPFR_div's score_rf + score_ps
\* equals HPFR's score and its two diagnostic sums equal HPFR's; so the score
\* biased_sampling_div reports is the HPFR score of its R.
C16_DivSumsToHPFR ==
    /\ call.op = "HPFR_div" =>
           LET h == HPFR(call.R, psS, sS, call.W, Len(S))
           IN  h.kind = "return" =>
                   /\ Rat(ret.score_rf + ret.score_ps, 1) = h.score
                   /\ ret.sum_psS = h.sum_psS
                   /\ ret.sum_psR = h.sum_psR
    /\ (call.op = "biased_sampling_div" /\ ret.kind = "return") =>
           LET h == HPFR(ret.R, psS, sS, call.W, Len(S))
           IN  h.kind = "return" =>
                   /\ ret.score = h.score
                   /\ ret.sum_psS = h.sum_psS
                   /\ ret.sum_psR = h.sum_psR

C19_SelectionDeterminedByArguments ==
    [][(call'.op \in SamplerOps /\ call'.times = 2) => R' = R]_vars

\* ----------------------------------------------------------------- C20
\* C20: during one run_all batch base_precompute runs at most once per data
\* set (shape, K), whatever k, gamma, G and registered samplers use it.
C20_PrecomputeOncePerDataset ==
    \A ds \in DOMAIN precomputes : precomputes[ds] <= 1

\* ----------------------------------------------------------------- C21
\* The indices of the cells of CL that hold the place p.
CellsHolding(p) == {c \in DOMAIN CL : \E j \in 1..Len(CL[c]) : CL[c][j] = p}

C22_HPFSymmetricLookup ==
    (/\ call.op = "HPF"
     /\ call.k >= 2
     /\ (<<call.pi, call.pj>> \in DOMAIN sS) # (<<call.pj, call.pi>> \in DOMAIN sS)) =>
        /\ ret.kind = "return"
        /\ ret.value =
               RatAdd(Rat((call.W * call.k - call.k) * (S[call.pi].rF - S[call.pj].rF)
                              + psS[call.pi] + psS[call.pj], call.k - 1),
                      Rat(0 - 2 * call.W * spacial_proximity(sS, S[call.pi], S[call.pj]), 1))

\* ------------------------------------------------- runner claims
\* _run_and_record has run algorithm number i of Algorithms for the row of
\* the current (combo, gamma, shape, G).
Ran(i) == (pc.at = "algo" /\ pc.a > i) \/ pc.at \in {"log", "plot"}

\* The record of the algorithm `name` in algo_results holds the R and the
\* score of the tuple res.
HoldsRecord(algo_results, name, res) ==
    /\ name \in DOMAIN algo_results
    /\ algo_results[name].R = res[1]
    /\ algo_results[name].score = res[2]

\* ----------------------------------------------------------------- C23
\* C23: for each of the registered samplers biased_sampling, grid_sampling
\* and grid_weighted_sampling whose call returns normally, _run_and_record
\* stores the returned score under row['<name>_hpfr'] and returns a record
\* with the returned R and score, which every plot callback of the row gets
\* in current_algo_results; the sampler is not recorded as a failure.
C23_SuccessfulSamplerRecorded ==
    \A i \in DOMAIN Algorithms :
        LET name == Algorithms[i]
            out == AlgorithmOutcome(name)
        IN  out.kind = "return" =>
                /\ Ran(i) =>
                       /\ row[Key(name, "hpfr")] = out.res[2]
                       /\ HoldsRecord(results, name, out.res)
                /\ \A j \in DOMAIN plots :
                       HoldsRecord(plots[j].algo_results, name, out.res)

\* ----------------------------------------------------------------- C24
\* C24: after a normal return of grid_sampling or grid_weighted_sampling the
\* row's <name>_prep_time is the sampler's preparation time, <name>_sel_time
\* its selection time, <name>_x_time their sum, and lenCL the number of
\* non-empty cells len(CL).
C24_GridUnpackingAgrees ==
    \A i \in DOMAIN Algorithms :
        LET name == Algorithms[i]
        IN  (/\ name \in GridOps
             /\ AlgorithmOutcome(name).kind = "return"
             /\ Ran(i)) =>
                /\ row[Key(name, "prep_time")] = Sym("prep_time")
                /\ row[Key(name, "sel_time")] = Sym("selection_time")
                /\ row[Key(name, "x_time")] = Plus(Sym("prep_time"), Sym("selection_time"))
                /\ row["lenCL"] = Sym("len(CL)")

\* ----------------------------------------------------------------- C25
\* The seven row keys of the algorithm `name`.
KeysOf(name) == {Key(name, Suffixes[i]) : i \in DOMAIN Suffixes}

\* C25: when a registered algorithm raises, _run_and_record does not
\* propagate the exception: it sets the seven fields of the algorithm to 0,
\* leaves every other key of the row as it was, returns None, so that
\* current_algo_results does not change, and run_all goes on to the next
\* registered algorithm of the row (to logger.log after the last one).
C25_FailureIsolated ==
    [][(/\ pc.at = "algo"
        /\ AlgorithmOutcome(Algorithms[pc.a]).kind = "raise") =>
           LET name == Algorithms[pc.a]
           IN  /\ DOMAIN row' = DOMAIN row \cup KeysOf(name)
               /\ \A x \in KeysOf(name) : row'[x] = Zero
               /\ \A x \in DOMAIN row \ KeysOf(name) : row'[x] = row[x]
               /\ results' = results
               /\ name \notin DOMAIN results'
               /\ pc' = IF pc.a < Len(Algorithms)
                        THEN [pc EXCEPT !.a = @ + 1]
                        ELSE [pc EXCEPT !.at = "log"]]_vars

\* A grid sampler that raises has been recorded with zeros next to one that
\* returned, whose cell count and record are kept.
C25_Witness ==
    /\ pc.at = "log"
    /\ batch.raising = {"grid_weighted_sampling"}
    /\ row["grid_weighted_sampling_hpfr"] = Zero
    /\ row["lenCL"] # Zero
    /\ DOMAIN results = {"grid_sampling"}

\* ----------------------------------------------------------------- C26
\* The tuples (combo, gamma, dataset, G), as loop indices, whose data set
\* loaded non-empty and whose precompute succeeded.
Eligible ==
    {t \in (DOMAIN batch.combos) \X (DOMAIN batch.gammas)
           \X (DOMAIN batch.datasets) \X (DOMAIN batch.G_values) :
        batch.datasets[t[3]] \in batch.found \ batch.broken}

\* t comes before u in the order of the four nested loops.
LoopLess(t, u) ==
    \E n \in 1..4 : t[n] < u[n] /\ \A m \in 1..(n - 1) : t[m] = u[m]

\* The eligible tuples whose body run_all has carried out as far as
\* logger.log, and as far as the plot callback, when it is at position p.
LoggedAt(p) ==
    {t \in Eligible :
        CASE p.at = "dataset" -> LoopLess(t, <<p.c, p.g, p.d, 0>>)
          [] p.at \in {"algo", "log"} -> LoopLess(t, <<p.c, p.g, p.d, p.G>>)
          [] p.at = "plot" -> ~LoopLess(<<p.c, p.g, p.d, p.G>>, t)
          [] OTHER -> TRUE}

PlottedAt(p) ==
    {t \in Eligible :
        /\ batch.plot_callback
        /\ CASE p.at = "dataset" -> LoopLess(t, <<p.c, p.g, p.d, 0>>)
             [] p.at \in {"algo", "log", "plot"} -> LoopLess(t, <<p.c, p.g, p.d, p.G>>)
             [] OTHER -> TRUE}

\* The place of the tuple t among the tuples of the set D, in loop order.
PlaceIn(D, t) == 1 + Cardinality({u \in D : LoopLess(u, t)})

\* C26: in run_all every tuple (combo, gamma, dataset, G) whose data set
\* loaded non-empty and whose precompute succeeded gets exactly one
\* logger.log call, made after all registered algorithms ran for it (the row
\* has the fields of each of them, failed or not) and before its plot
\* callback; a data set that loads empty or whose precompute raises gets no
\* row and no callback; logger.save is called once, after the last row.
\* The tuples logged (plotted) so far are the first ones of the eligible
\* tuples in loop order, so the row (plot) of a tuple is at its place.
C26_OneLogPerTuple ==
    LET logged == LoggedAt(pc)
        plotted == PlottedAt(pc)
    IN  /\ Len(logs) = Cardinality(logged)
        /\ \A t \in logged :
               LET j == PlaceIn(logged, t)
                   p == [at |-> "algo", c |-> t[1], g |-> t[2], d |-> t[3],
                         G |-> t[4], a |-> 1]
                   new == NewRow(p)
               IN  /\ \A x \in {"shape", "K", "k", "W", "g*K/k", "G"} :
                          logs[j][x] = new[x]
                   /\ \A i \in DOMAIN Algorithms :
                          KeysOf(Algorithms[i]) \subseteq DOMAIN logs[j]
        /\ Len(plots) = Cardinality(plotted)
        /\ \A t \in plotted :
               LET j == PlaceIn(plotted, t)
               IN  /\ plots[j].shape = batch.datasets[t[3]]
                   /\ plots[j].K = batch.combos[t[1]][1]
                   /\ plots[j].k = batch.combos[t[1]][2]
                   /\ plots[j].G = batch.G_values[t[4]]
        /\ saves = (IF pc.at = "done" THEN 1 ELSE 0)

\* run_all has ended after a skipped data set and two or more rows, one of
\* them a row on which every algorithm failed, each with its callback.
C26_Witness ==
    /\ pc.at = "done"
    /\ saves = 1
    /\ batch.broken # {}
    /\ Len(logs) >= 2
    /\ Len(plots) = Len(logs)
    /\ \E j \in DOMAIN plots : DOMAIN plots[j].algo_results = {}

\* ----------------------------------------------------------------- C30
\* C30: plot_bridge gets from the runner a context with the run's W and g:
\* the title and the file name of every plot written for a call of run_all
\* carry the W and the gamma of the row logged for the same tuple, so that
\* two runs that differ in gamma only write different files.
C30_PlotCarriesWAndGamma ==
    \A j \in DOMAIN plots :
        plots[j].file # <<>> =>
            /\ Sym(plots[j].file[1].W) = logs[j]["W"]
            /\ plots[j].file[1].g = logs[j]["g*K/k"][1]

\* ----------------------------------------------------------------- C27
\* C27: the allocation is monotone in the cell score: for a budget k >= 0
\* and two non-empty cells a, b of a grid sampler call, score(a) > score(b)
\* implies quota(a) >= quota(b), the quotas being the k_alloc values before
\* clamping; the score is the cell size in grid_sampling and, for weights
\* that are not negative and a positive total, size times weight sum in
\* grid_weighted_sampling.
C27_AllocationMonotone ==
    (/\ call.op \in GridOps
     /\ call.k >= 0
     /\ k_alloc # <<>>
     /\ \A i \in DOMAIN S : S[i].rF >= 0) =>
        \A a, b \in DOMAIN k_alloc :
            CellScores[a] > CellScores[b] => k_alloc[a] >= k_alloc[b]

\* A call left a remaining unit to hand out between two cells of different
\* score that have the same floor, and the larger one got it.
C27_Witness ==
    /\ call.op \in GridOps
    /\ call.k >= 1
    /\ k_alloc # <<>>
    /\ \E a, b \in DOMAIN k_alloc :
           /\ CellScores[a] > CellScores[b]
           /\ CellScores[b] > 0
           /\ Floor(Ideal(a)) = Floor(Ideal(b))
           /\ k_alloc[a] > k_alloc[b]

\* ----------------------------------------------------------------- C28
\* The budget grid_sampling has left after the floors: k_remaining =
\* k - total_k_allocated, the integer parts being math.floor(k * (size / K)).
LeftoverBudget ==
    call.k - SumSeq([c \in DOMAIN CL |-> FloatFloor(call.k, size(CL[c]), Len(S))])

\* C28: in grid_sampling with k >= 1 every quota is within one unit of the
\* cell's ideal share, floor(ideal) <= quota <= floor(ideal) + 1 and
\* |quota - ideal| < 1 with ideal = k * size / |S|, and the budget left after
\* the floors is at least 0 and smaller than the number of non-empty cells,
\* so that min(k_remaining, len(remainders)) drops no unit of it.
C28_QuotaWithinOneOfIdeal ==
    (/\ call.op = "grid_sampling"
     /\ call.k >= 1
     /\ k_alloc # <<>>) =>
        /\ \A c \in DOMAIN k_alloc :
               /\ Floor(Ideal(c)) <= k_alloc[c]
               /\ k_alloc[c] <= Floor(Ideal(c)) + 1
               /\ RatLess(RatAdd(Ideal(c), <<0 - k_alloc[c], 1>>), <<1, 1>>)
               /\ RatLess(<<-1, 1>>, RatAdd(Ideal(c), <<0 - k_alloc[c], 1>>))
        /\ LeftoverBudget >= 0
        /\ LeftoverBudget < Len(CL)

\* ----------------------------------------------------------------- C29
\* C29: for every non-empty S whose cells partition S and every k >= 1,
\* grid_sampling never raises "Selected sample R is empty", and neither does
\* grid_weighted_sampling when the total cell score is not zero: some
\* non-empty cell has a quota of at least 1.
C29_EmptySelectionUnreachable ==
    (/\ call.op \in GridOps
     /\ call.k >= 1
     /\ Len(S) >= 1
     /\ SumSeq(CellScores) # 0) =>
        /\ ret # Raise("ValueError")
        /\ \E c \in DOMAIN k_alloc : size(CL[c]) >= 1 /\ k_alloc[c] >= 1

\* A grid sampler returned a selection for a budget smaller than the number
\* of cells: every floor is 0 and the selection comes from the remaining
\* units alone.
C29_Witness ==
    /\ call.op \in GridOps
    /\ call.k >= 1
    /\ call.k < Len(CL)
    /\ \A c \in DOMAIN CL : Floor(Ideal(c)) = 0
    /\ ret.kind = "return"
    /\ ret.R # <<>>

====
